---- MODULE Spec2Model ----
(***************************************************************************)
(* BigQuery Data Explorer (streamlit_app.py).                              *)
(*                                                                         *)
(* The program is a Streamlit script: the framework runs the whole file    *)
(* top to bottom once per page load and once more after every widget       *)
(* interaction.  The state that survives a run is the process-wide         *)
(* st.cache_resource entry of get_client, the secret store, and the        *)
(* session's widget values; everything else is recomputed by each run.     *)
(* One action of the model is one user interaction together with the       *)
(* script run it triggers.  A run is recorded as the sequence of st.*      *)
(* elements it emits and of the calls it makes to the client (log).     *)
(***************************************************************************)
EXTENDS Integers, Sequences, FiniteSets, TLC

VARIABLES
    secrets,      \* st.secrets["gcp_service_account"]: "valid", "malformed", "missing", "no_project"
    cache,        \* st.cache_resource entry of get_client: <<>> or <<value>>
    loads,        \* times the body of get_client read the secret
    handles,      \* bigquery.Client objects constructed so far
    firstClient,  \* what the first get_client() call of the process returned
    client,       \* module-level `client` of the latest run
    query,        \* value of the "SQL Query" text area
    state,        \* value of the "Select state:" selectbox
    name_prefix,  \* value of the "Name starts with:" text input
    limit,        \* value of the "Number of results:" slider
    chart_type,   \* widget state of "Select chart type" (Absent if not on the page)
    trigger,      \* the interaction that caused the latest run
    outcome,      \* what the warehouse answered in the latest run
    log           \* what the latest run did, in order: the st.* elements it
                  \* emitted and its calls to the warehouse client

vars == <<secrets, cache, loads, handles, firstClient, client, query, state,
          name_prefix, limit, chart_type, trigger, outcome, log>>

----------------------------------------------------------------------------
(* Bounds of the model *)

MaxRows == 2      \* largest result set the warehouse returns
MaxLoads == 3     \* cap on executions of get_client's body

----------------------------------------------------------------------------
(* Values *)

None == 0         \* Python None; client handles are 1, 2, ...
NoRun == -1       \* no run of the script has happened yet
Absent == "absent"
NoExc == ""

SecretStates == {"valid", "malformed", "missing", "no_project"}

SliderMin == 1
SliderMax == 50
SliderDefault == 10
Limits == {SliderMin, SliderDefault, SliderMax}

States == {"TX", "CA", "NY", "FL", "IL"}
StateDefault == "TX"

ChartTypes == <<"Bar Chart", "Line Chart", "Area Chart">>
ChartTypeSet == {ChartTypes[i] : i \in 1..Len(ChartTypes)}

\* Text is a sequence of characters; only the characters the model needs.
PrefixDefault == <<"J", "o">>
Prefixes == {PrefixDefault, <<>>, <<"'", ";">>}

\* SQL text is a sequence of tokens; a token is <<text>> or <<"@", name>>.
default_query ==
    << <<"SELECT name, gender, SUM(number) as total_count FROM usa_1910_2013 WHERE state = 'TX' GROUP BY name, gender ORDER BY total_count DESC LIMIT 10">> >>
NameOnlyQuery == << <<"SELECT name FROM usa_1910_2013 LIMIT 10">> >>
NoNameQuery == << <<"SELECT 1 AS x">> >>
Queries == {default_query, NameOnlyQuery, NoNameQuery}

query_with_params ==
    << <<"SELECT name, gender, SUM(number) as total_count FROM usa_1910_2013 WHERE state = ">>,
       <<"@", "state">>,
       <<" AND name LIKE ">>,
       <<"@", "name_prefix">>,
       <<" GROUP BY name, gender ORDER BY total_count DESC LIMIT ">>,
       <<"@", "limit">> >>

\* One entry of a run's log: an element (or call) kind, its text, a row count,
\* and for a client.query call the request that was submitted.
Ev(el, text, n) == [el |-> el, text |-> text, n |-> n, req |-> <<>>]
Call(req) == [el |-> "client.query", text |-> <<>>, n |-> 0, req |-> <<req>>]

----------------------------------------------------------------------------
(* get_client and its st.cache_resource memo *)

\* The exception the body of get_client raises for a secret, NoExc if none.
CredentialError(s) ==
    CASE s = "missing"    -> "KeyError: gcp_service_account"
      [] s = "malformed"  -> "ValueError: service account info is missing fields"
      [] s = "no_project" -> "OSError: project could not be determined"
      [] OTHER            -> NoExc

\* One execution of the body: the value returned, the number of clients
\* constructed afterwards, and the elements the body emitted.
get_client_body(s, h) ==
    IF CredentialError(s) = NoExc
    THEN [value |-> h + 1, handles |-> h + 1, out |-> <<>>]
    ELSE [value |-> None, handles |-> h,
          out |-> <<Ev("error", <<"Error creating BigQuery client: ", CredentialError(s)>>, 0)>>]

CacheHitNever(c) == FALSE
CacheHit(c) == c # <<>>

CacheStoreSuccessOnly(e) == IF e.value = None THEN <<>> ELSE <<e>>
CacheStore(e) == <<e>>

\* A call of the decorated function: a hit returns the stored value and replays
\* the stored elements; a miss runs the body and stores what it returned.
get_client(c, s, h) ==
    IF CacheHit(c)
    THEN [value |-> c[1].value, out |-> c[1].out, cache |-> c, handles |-> h, miss |-> 0]
    ELSE LET b == get_client_body(s, h)
         IN [value |-> b.value, out |-> b.out,
             cache |-> CacheStore([value |-> b.value, out |-> b.out]),
             handles |-> b.handles, miss |-> 1]

----------------------------------------------------------------------------
(* The warehouse: what client.query(...).to_dataframe() can answer *)

NoOutcome == [fail |-> "none", msg |-> NoExc, rows |-> 0]

\* The call raises in client.query or in to_dataframe, with the service's text.
Failures ==
    {[fail |-> "query", msg |-> m, rows |-> 0] : m \in {"400 Syntax error", "403 Access Denied"}}
    \cup {[fail |-> "to_dataframe", msg |-> "Timeout"  , rows |-> 0]}

Min(a, b) == IF a < b THEN a ELSE b

LiteralOutcomes(q) ==
    Failures \cup {[fail |-> "none", msg |-> NoExc, rows |-> n] : n \in 0..MaxRows}

\* LIMIT @limit: the parameterized query returns at most `limit` rows.
ParamOutcomes(lim) ==
    Failures \cup {[fail |-> "none", msg |-> NoExc, rows |-> n] : n \in 0..Min(lim, MaxRows)}

\* The columns of the dataframe are those the query text selects.
Columns(q) ==
    CASE q = default_query -> {"name", "gender", "total_count"}
      [] q = NameOnlyQuery -> {"name"}
      [] OTHER             -> {"x"}

ParamColumns == {"name", "gender", "total_count"}

----------------------------------------------------------------------------
(* The "Run Query" handler *)

LiteralRequest(c, q) == [mode |-> "literal", client |-> c, sql |-> q, params |-> <<>>]

\* df.set_index('name')['total_count']: the KeyError it raises, NoExc if none.
SetIndexError(cols) ==
    IF "name" \notin cols THEN "KeyError: None of ['name'] are in the columns"
    ELSE IF "total_count" \notin cols THEN "KeyError: 'total_count'"
    ELSE NoExc

\* The if/elif chain over chart_type: the st.* chart call of the branch taken.
ChartEl(ct) ==
    IF ct = "Bar Chart" THEN "bar_chart"
    ELSE IF ct = "Line Chart" THEN "line_chart"
    ELSE IF ct = "Area Chart" THEN "area_chart"
    ELSE Absent

\* st.selectbox returns the widget state of the session, or the first option
\* when the session holds no state for the widget.
SelectboxValue(w) == IF w = Absent THEN ChartTypes[1] ELSE w

\* A block of statements: the log entries it produced and the exception that
\* ended it (NoExc if it ran to its end).
Visualization(df, w) ==
    LET ct == SelectboxValue(w)
        head == <<Ev("subheader", <<"Visualization">>, 0),
                  Ev("selectbox", <<"Select chart type", ct>>, 0)>>
    IN IF ChartEl(ct) = Absent THEN [out |-> head, exc |-> NoExc]
       ELSE IF SetIndexError(df.cols) # NoExc
            THEN [out |-> head, exc |-> SetIndexError(df.cols)]
       ELSE [out |-> Append(head, Ev(ChartEl(ct), <<"name", "total_count">>, df.rows)),
             exc |-> NoExc]

RowsPresentAlways(df) == TRUE
RowsPresent(df) == df.rows > 0

\* Lines 52-74, the body of the try.
LiteralTry(c, q, w, o) ==
    LET info == <<Ev("info", <<"Running query...">>, 0), Call(LiteralRequest(c, q))>>
        df == [rows |-> o.rows, cols |-> Columns(q)]
        shown == info \o <<Ev("to_dataframe", <<>>, df.rows),
                           Ev("success", <<"Query returned ", " rows">>, df.rows),
                           Ev("dataframe", <<>>, df.rows)>>
    IN IF o.fail = "query" THEN [out |-> info, exc |-> o.msg]
       ELSE IF o.fail = "to_dataframe"
            THEN [out |-> Append(info, Ev("to_dataframe", <<>>, 0)), exc |-> o.msg]
       ELSE IF RowsPresent(df)
            THEN [out |-> shown \o Visualization(df, w).out, exc |-> Visualization(df, w).exc]
       ELSE [out |-> shown, exc |-> NoExc]

ExceptHandlerNoText(e) == <<Ev("error", <<"Error executing query">>, 0)>>
\* except Exception as e: st.error(f"Error executing query: {e}")
ExceptHandler(e) == <<Ev("error", <<"Error executing query: ", e>>, 0)>>

TryExceptRetry(b) ==
    IF b.exc = NoExc THEN b.out ELSE b.out \o b.out \o ExceptHandler(b.exc)
\* try: ... except Exception: the block's entries, then the handler's if it raised.
TryExcept(b) == IF b.exc = NoExc THEN b.out ELSE b.out \o ExceptHandler(b.exc)

----------------------------------------------------------------------------
(* The "Run Parameterized Query" handler *)

ParamRequestConcat(c, st, np, lim) ==
    [mode |-> "param", client |-> c,
     sql |-> <<query_with_params[1], <<"'", st, "'">>>> \o SubSeq(query_with_params, 3, 6),
     params |-> <<[name |-> "name_prefix", type |-> "STRING", value |-> Append(np, "%")],
                  [name |-> "limit", type |-> "INT64", value |-> lim]>>]
\* Lines 91-108: the template and the QueryJobConfig built from the widgets.
ParamRequest(c, st, np, lim) ==
    [mode |-> "param", client |-> c,
     sql |-> query_with_params,
     params |-> <<[name |-> "state", type |-> "STRING", value |-> st],
                  [name |-> "name_prefix", type |-> "STRING", value |-> Append(np, "%")],
                  [name |-> "limit", type |-> "INT64", value |-> lim]>>]

\* Lines 90-116, the body of the try.
ParamTry(c, st, np, lim, o) ==
    LET info == <<Ev("info", <<"Running parameterized query...">>, 0),
                  Call(ParamRequest(c, st, np, lim))>>
        df == [rows |-> o.rows, cols |-> ParamColumns]
    IN IF o.fail = "query" THEN [out |-> info, exc |-> o.msg]
       ELSE IF o.fail = "to_dataframe"
            THEN [out |-> Append(info, Ev("to_dataframe", <<>>, 0)), exc |-> o.msg]
       ELSE [out |-> info \o <<Ev("to_dataframe", <<>>, df.rows),
                               Ev("success", <<"Query returned ", " rows">>, df.rows),
                               Ev("dataframe", <<>>, df.rows)>>,
             exc |-> NoExc]

----------------------------------------------------------------------------
(* The script, top to bottom *)

Header ==
    <<Ev("title", <<"BigQuery Data Explorer">>, 0),
      Ev("write", <<"This app securely connects to BigQuery and displays data.">>, 0)>>

Sidebar ==
    <<Ev("sidebar.header", <<"About">>, 0), Ev("sidebar.info", <<>>, 0),
      Ev("sidebar.header", <<"Security Notes">>, 0), Ev("sidebar.warning", <<>>, 0)>>

InitFailed ==
    <<Ev("error", <<"Failed to initialize BigQuery client. Please check your credentials.">>, 0)>>

\* st.button returns True only in the run that the click on it triggered.
ButtonRunQuery(trig) == trig = "click_run_query"
ButtonRunParam(trig) == trig = "click_run_param"

ClientGuardAlways(c) == TRUE
\* if client is not None:
ClientGuard(c) == c # None

\* Lines 32-77.
LiteralSection(c, trig, q, w, o) ==
    <<Ev("header", <<"Sample Query">>, 0),
      Ev("write", <<"Let's query a public dataset as an example:">>, 0),
      Ev("text_area", <<"SQL Query">>, 0),
      Ev("button", <<"Run Query">>, 0)>>
    \o (IF ButtonRunQuery(trig) THEN TryExcept(LiteralTry(c, q, w, o)) ELSE <<>>)

ParamSectionWithChart(c, trig, st, np, lim, o) ==
    <<Ev("header", <<"Parameterized Query Example">>, 0),
      Ev("write", <<"This is a safer way to query with user inputs:">>, 0),
      Ev("selectbox", <<"Select state:", st>>, 0),
      Ev("text_input", <<"Name starts with:">>, 0),
      Ev("slider", <<"Number of results:">>, lim),
      Ev("button", <<"Run Parameterized Query">>, 0)>>
    \o (IF ButtonRunParam(trig)
        THEN TryExcept(ParamTry(c, st, np, lim, o))
             \o (IF o.fail = "none" /\ o.rows > 0
                 THEN <<Ev("bar_chart", <<"name", "total_count">>, o.rows)>> ELSE <<>>)
        ELSE <<>>)
\* Lines 80-119.
ParamSection(c, trig, st, np, lim, o) ==
    <<Ev("header", <<"Parameterized Query Example">>, 0),
      Ev("write", <<"This is a safer way to query with user inputs:">>, 0),
      Ev("selectbox", <<"Select state:", st>>, 0),
      Ev("text_input", <<"Name starts with:">>, 0),
      Ev("slider", <<"Number of results:">>, lim),
      Ev("button", <<"Run Parameterized Query">>, 0)>>
    \o (IF ButtonRunParam(trig) THEN TryExcept(ParamTry(c, st, np, lim, o)) ELSE <<>>)

\* One run of streamlit_app.py: c and cout are the value and the elements of
\* the get_client() call of line 28.
Script(c, cout, trig, q, st, np, lim, w, o) ==
    Header \o cout
    \o (IF ClientGuard(c)
        THEN LiteralSection(c, trig, q, w, o) \o ParamSection(c, trig, st, np, lim, o)
        ELSE InitFailed)
    \o Sidebar

----------------------------------------------------------------------------
(* Reading a run's log *)

Has(l, el) == \E i \in 1..Len(l) : l[i].el = el
Shown(l, el, label) ==
    \E i \in 1..Len(l) : l[i].el = el /\ Len(l[i].text) > 0 /\ l[i].text[1] = label
IsCall(e) == e.el = "client.query"
Calls(l) == SelectSeq(l, IsCall)
ChartEls == {"bar_chart", "line_chart", "area_chart"}
HasChart(l) == \E i \in 1..Len(l) : l[i].el \in ChartEls
ChartSelectorShown(l) == Shown(l, "selectbox", "Select chart type")

----------------------------------------------------------------------------
(* Actions: an interaction and the run it triggers *)

Init ==
    /\ secrets \in SecretStates
    /\ cache = <<>>
    /\ loads = 0
    /\ handles = 0
    /\ firstClient = NoRun
    /\ client = NoRun
    /\ query = default_query
    /\ state = StateDefault
    /\ name_prefix = PrefixDefault
    /\ limit = SliderDefault
    /\ chart_type = Absent
    /\ trigger = "none"
    /\ outcome = NoOutcome
    /\ log = <<>>

\* The framework runs the script with the given widget values; widget state of
\* a widget the run did not render is dropped when the run ends.
Run(trig, q, st, np, lim, w, o) ==
    /\ CacheHit(cache) \/ loads < MaxLoads
    /\ LET g == get_client(cache, secrets, handles)
           l == Script(g.value, g.out, trig, q, st, np, lim, w, o)
       IN /\ cache' = g.cache
          /\ loads' = loads + g.miss
          /\ handles' = g.handles
          /\ client' = g.value
          /\ firstClient' = IF firstClient = NoRun THEN g.value ELSE firstClient
          /\ log' = l
          /\ chart_type' = IF ChartSelectorShown(l) THEN SelectboxValue(w) ELSE Absent
    /\ query' = q
    /\ state' = st
    /\ name_prefix' = np
    /\ limit' = lim
    /\ trigger' = trig
    /\ outcome' = o
    /\ UNCHANGED secrets

\* A browser opens (or reloads) the page: a new session with default widgets.
PageLoad ==
    Run("load", default_query, StateDefault, PrefixDefault, SliderDefault, Absent, NoOutcome)

\* The user asks for a rerun without touching a widget.
Rerun ==
    /\ log # <<>>
    /\ Run("rerun", query, state, name_prefix, limit, chart_type, NoOutcome)

EditQuery(q) ==
    /\ Shown(log, "text_area", "SQL Query")
    /\ q # query
    /\ Run("edit_query", q, state, name_prefix, limit, chart_type, NoOutcome)

ClickRunQuery ==
    /\ Shown(log, "button", "Run Query")
    /\ \E o \in LiteralOutcomes(query) :
          Run("click_run_query", query, state, name_prefix, limit, chart_type, o)

SelectChartType(k) ==
    /\ ChartSelectorShown(log)
    /\ k # chart_type
    /\ Run("select_chart_type", query, state, name_prefix, limit, k, NoOutcome)

SelectState(st) ==
    /\ Shown(log, "selectbox", "Select state:")
    /\ st # state
    /\ Run("select_state", query, st, name_prefix, limit, chart_type, NoOutcome)

EditPrefix(np) ==
    /\ Shown(log, "text_input", "Name starts with:")
    /\ np # name_prefix
    /\ Run("edit_prefix", query, state, np, limit, chart_type, NoOutcome)

SlideLimit(lim) ==
    /\ Shown(log, "slider", "Number of results:")
    /\ lim # limit
    /\ Run("slide_limit", query, state, name_prefix, lim, chart_type, NoOutcome)

ClickRunParam ==
    /\ Shown(log, "button", "Run Parameterized Query")
    /\ \E o \in ParamOutcomes(limit) :
          Run("click_run_param", query, state, name_prefix, limit, chart_type, o)

\* The environment: the secret store is edited while the process runs.
SecretsChange(s) ==
    /\ s # secrets
    /\ secrets' = s
    /\ UNCHANGED <<cache, loads, handles, firstClient, client, query, state,
                   name_prefix, limit, chart_type, trigger, outcome, log>>

Next ==
    \/ PageLoad
    \/ Rerun
    \/ \E q \in Queries : EditQuery(q)
    \/ ClickRunQuery
    \/ \E k \in ChartTypeSet : SelectChartType(k)
    \/ \E st \in States : SelectState(st)
    \/ \E np \in Prefixes : EditPrefix(np)
    \/ \E lim \in Limits : SlideLimit(lim)
    \/ ClickRunParam
    \/ \E s \in SecretStates : SecretsChange(s)

Spec == Init /\ [][Next]_vars

----------------------------------------------------------------------------
(* Properties *)

Clicked == ButtonRunQuery(trigger) \/ ButtonRunParam(trigger)
InitFailedShown ==
    Shown(log, "error", "Failed to initialize BigQuery client. Please check your credentials.")
QueryControlsShown ==
    Has(log, "text_area") \/ Has(log, "button") \/ Has(log, "selectbox")
    \/ Has(log, "text_input") \/ Has(log, "slider")
RunReachedEnd ==
    Len(log) >= Len(Sidebar) /\ SubSeq(log, Len(log) - Len(Sidebar) + 1, Len(log)) = Sidebar

\* C1: once get_client has returned None, the run at hand and every later run
\* of the process submit no query (no client.query call is made), and the page
\* shows the 'Failed to initialize BigQuery client' error and none of the
\* query controls.
C1_NoQueryWithoutClient ==
    firstClient = None =>
        /\ client = None
        /\ Calls(log) = <<>>
        /\ InitFailedShown
        /\ ~QueryControlsShown

C1_Witness ==
    /\ firstClient = None
    /\ trigger = "rerun"
    /\ secrets = "missing"
    /\ InitFailedShown

\* C2: over all runs of the process the body of get_client reads the secret and
\* constructs a client at most once; every call returns what the first call
\* returned; every query is submitted to that handle, and the memoized handle
\* is the one the first call stored.
C2_ClientMemoized ==
    /\ loads <= 1
    /\ handles <= 1
    /\ client = firstClient
    /\ (cache # <<>> => cache[1].value = firstClient)
    /\ \A i \in 1..Len(log) : IsCall(log[i]) => log[i].req[1].client = firstClient

C2_Witness ==
    /\ firstClient > None
    /\ client = firstClient
    /\ ButtonRunParam(trigger)
    /\ Len(Calls(log)) = 1
    /\ loads = 1

\* The exception a handler's try block raised in the latest run, NoExc if none.
Raised ==
    IF ~Clicked THEN NoExc
    ELSE IF outcome.fail # "none" THEN outcome.msg
    ELSE IF ButtonRunQuery(trigger) /\ outcome.rows > 0 THEN SetIndexError(Columns(query))
    ELSE NoExc

BothButtonsShown ==
    Shown(log, "button", "Run Query") /\ Shown(log, "button", "Run Parameterized Query")

\* C3: in both handlers an error raised while the query executes is caught by
\* the handler: an error element carrying the exception's text is shown, the
\* run goes on to its end (the sidebar is rendered), both buttons are on the
\* page again, and the next press of either button submits exactly one query
\* to the same client.
C3_ErrorCaught ==
    /\ [](Raised # NoExc =>
            /\ \E i \in 1..Len(log) :
                  log[i].el = "error" /\ log[i].text = <<"Error executing query: ", Raised>>
            /\ RunReachedEnd
            /\ BothButtonsShown)
    /\ [][(Raised # NoExc /\ Clicked') =>
            /\ Len(Calls(log')) = 1
            /\ Calls(log')[1].req[1].client = client
            /\ client' = client]_vars

C3_Witness ==
    /\ ButtonRunParam(trigger)
    /\ outcome.fail = "to_dataframe"
    /\ Raised = "Timeout"
    /\ RunReachedEnd

\* C4 (as claimed): a button press ends in exactly one outcome: never both the
\* success message and the 'Error executing query' message in one run, and a
\* run that shows the error shows no result table.
C4_OneOutcome ==
    Clicked =>
        /\ ~(Has(log, "success") /\ Shown(log, "error", "Error executing query: "))
        /\ (Shown(log, "error", "Error executing query: ") => ~Has(log, "dataframe"))

\* C5 (as claimed): after a run that displayed a chart, selecting kind K in the
\* chart-type selector leads to a page that displays a chart of kind K.
C5_SelectedKindDisplayed ==
    [][\A k \in ChartTypeSet :
          (HasChart(log) /\ SelectChartType(k)) => Has(log', ChartEl(k))]_vars

\* C6: a run whose query returns zero rows shows the success message and the
\* table, and neither the chart-type selector nor any chart.
C6_EmptyResultTableOnly ==
    (Clicked /\ outcome.fail = "none" /\ outcome.rows = 0) =>
        /\ Has(log, "success")
        /\ Has(log, "dataframe")
        /\ ~ChartSelectorShown(log)
        /\ ~Has(log, "subheader")
        /\ ~HasChart(log)

C6_Witness ==
    /\ ButtonRunQuery(trigger)
    /\ outcome.fail = "none"
    /\ outcome.rows = 0
    /\ Has(log, "dataframe")
    /\ ~HasChart(log)

\* The names of the placeholders of a template.
Placeholders(sql) ==
    {sql[i][2] : i \in {j \in 1..Len(sql) : Len(sql[j]) = 2 /\ sql[j][1] = "@"}}

\* C7: every parameterized call submits the constant template, whatever the
\* widgets hold; it has as many parameters as the template has placeholders,
\* exactly one parameter per placeholder name, each of type STRING or INT64,
\* and the widget values travel in the parameters.
C7_ParamsBound ==
    \A i \in 1..Len(log) :
        (IsCall(log[i]) /\ log[i].req[1].mode = "param") =>
            LET r == log[i].req[1]
            IN /\ r.sql = query_with_params
               /\ Len(r.params) = Cardinality(Placeholders(r.sql))
               /\ \A ph \in Placeholders(r.sql) :
                     Cardinality({j \in 1..Len(r.params) : r.params[j].name = ph}) = 1
               /\ \A j \in 1..Len(r.params) :
                     /\ r.params[j].type \in {"STRING", "INT64"}
                     /\ r.params[j].name \in Placeholders(r.sql)
               /\ r.params[1].value = state
               /\ r.params[2].value = name_prefix \o <<"%">>
               /\ r.params[3].value = limit

C7_Witness ==
    /\ ButtonRunParam(trigger)
    /\ state = "NY"
    /\ name_prefix = <<"'", ";">>
    /\ limit = SliderMax
    /\ Len(Calls(log)) = 1
    /\ Calls(log)[1].req[1].mode = "param"

\* C8: no run has both buttons active; a run makes exactly one client.query
\* call if a button was pressed and the client is not None, and none otherwise;
\* the success message and the table come only after the call and its
\* conversion returned; a call that failed is not made again.
C8_OneCallThenRender ==
    /\ ~(ButtonRunQuery(trigger) /\ ButtonRunParam(trigger))
    /\ Len(Calls(log)) = (IF Clicked /\ client # None THEN 1 ELSE 0)
    /\ \A i \in 1..Len(log) :
          log[i].el \in {"success", "dataframe"} =>
              \E j \in 1..(i - 1) : \E k \in (j + 1)..(i - 1) :
                  IsCall(log[j]) /\ log[k].el = "to_dataframe"
    /\ (Clicked /\ outcome.fail # "none" =>
          /\ Len(Calls(log)) = 1
          /\ ~Has(log, "success")
          /\ ~Has(log, "dataframe"))

C8_Witness ==
    /\ ButtonRunQuery(trigger)
    /\ outcome.fail = "query"
    /\ Len(Calls(log)) = 1
    /\ Shown(log, "error", "Error executing query: ")

C10_FailureMemoized ==
    [][client = None =>
          /\ client' = None
          /\ loads' = loads
          /\ handles' = handles
          /\ cache' = cache
          /\ Calls(log') = <<>>
          /\ Shown(log', "error",
                   "Failed to initialize BigQuery client. Please check your credentials.")]_vars

C10_Witness ==
    /\ client = None
    /\ secrets = "valid"
    /\ trigger = "rerun"
    /\ loads = 1
    /\ handles = 0
    /\ InitFailedShown

====
